---- MODULE Spec2Model ----
(***************************************************************************)
(* VortexL2: the connection pool and its manager (connection_pool.py), the  *)
(* health monitor (health_monitor.py) and the watchdog                     *)
(* (tunnel_watchdog.py), as state machines.                                *)
(*                                                                         *)
(*   Spec        one caller driving one ConnectionPool, one action per     *)
(*               public method                                             *)
(*   SpecHealth  one HealthMonitor, one action per public method           *)
(*   SpecConc    several threads driving one ConnectionPool, one action    *)
(*               per step a thread takes between two lock operations       *)
(*   SpecMgr     several threads driving one ConnectionPoolManager         *)
(*   SpecGlobal  several threads driving get_pool_manager and              *)
(*               setup_connection_pooling                                  *)
(*   SpecDog     the coroutine TunnelWatchdog.run() and stop(), one action *)
(*               per stretch of code between two awaits or collaborator    *)
(*               calls; SpecDogLive adds weak fairness of run()'s steps    *)
(*   SpecRetry   SpecDog over a smaller configuration, followed to higher  *)
(*               failure counts; SpecShared over two tunnels that forward  *)
(*               the same port; SpecCfg with a configuration that shrinks; *)
(*               SpecStop with a stop() that precedes run()'s first step;  *)
(*               SpecHang with collaborator calls that may not return      *)
(***************************************************************************)
EXTENDS Integers, Sequences, FiniteSets, TLC

(* ------------------------------ bounds -------------------------------- *)

\* ids the pool may issue before the model stops creating connections
MaxConns == 2
\* largest reading of time.time()
MaxClock == 1
\* caps on stats["total_reused"] and stats["total_closed"]
MaxReused == 1
MaxClosed == 2

\* cap on a health record's failure_count
MaxFailures == 2
\* longest list passed to check_all_port_health
MaxBatch == 2
\* the largest failure_count of a record where the watchdog is followed past
\* its threshold
MaxStreak == 3

(* ------------------------- program constants -------------------------- *)

\* random.random() < 0.5 (as a percentage)
EvictThreshold == 50
\* random.random() < 0.3 (as a percentage)
NewConnThreshold == 30
\* the default reuse_probability, 0.7 (as a percentage)
DefaultReuseProbability == 70

\* the value of a Python None where an id is expected
None == -1

\* random.random() lies in [0, 1): the draws, as percentages
Draws == {0, 40, 90}
\* the reuse_probability and pool_size values a pool is constructed with
ReuseProbabilities == {0, DefaultReuseProbability, 100}
PoolSizes == {1, 2}
\* the num_requests values passed to get_chaotic_connection_pattern
RequestCounts == {0, 1, 2}

\* the configured tunnels' names and the forwarded ports
TunnelNames == {"tunA"}
Ports == {80, 443}
\* the failure_threshold values a HealthMonitor is constructed with
Thresholds == 1..MaxFailures

VARIABLES
    pool,          \* the ConnectionPool object
    now,           \* the reading of time.time()
    lastOp,        \* the last method called on the pool, its argument and result
    createCalls,   \* number of executions of create_connection so far
    onlyGet,       \* TRUE while the pool was used through get_connection only
    failure_threshold,  \* HealthMonitor.failure_threshold
    tunnel_health,      \* HealthMonitor.tunnel_health: name -> HealthStatus
    port_health,        \* HealthMonitor.port_health: port -> HealthStatus
    recovery_needed,    \* what the last call, if get_recovery_needed, returned
    tunnel_obs,         \* per tunnel with a record: the last probe and the streak
    port_obs,           \* per port with a record: the last probe and the streak
    threads,            \* per thread: where it is in the pool's code, its locals
    lock,               \* ConnectionPool.lock, an RLock: its owner and its depth
    issued              \* the ids create_connection returned, in order

VARIABLES
    tunnel_pools,  \* ConnectionPoolManager.tunnel_pools: name -> ConnectionPool
    mgr_lock,      \* ConnectionPoolManager.lock, an RLock
    heap,          \* the ConnectionPool objects constructed by get_pool
    callers,       \* per thread: where it is in the manager's code, its locals
    got,           \* the <<name, pool>> pairs get_pool returned
    pool_manager,  \* the module's global _pool_manager
    managers,      \* the ConnectionPoolManager objects constructed
    received       \* the managers get_pool_manager returned

VARIABLES
    dog,           \* the TunnelWatchdog object and the locals of its coroutine
    inflight,      \* the calls to external collaborators that have not returned
    log,           \* the recovery actions of the current recovery cycle, in order
    after_clear,   \* per port cleared by a recovery: its next probe
    config         \* what config_manager.get_all_tunnels() gives when called

poolVars == <<pool, now, lastOp, createCalls, onlyGet>>

healthVars == <<failure_threshold, tunnel_health, port_health, recovery_needed,
                tunnel_obs, port_obs>>

concVars == <<threads, lock, issued>>

mgrVars == <<tunnel_pools, mgr_lock, heap, callers, got, pool_manager, managers,
             received>>

dogVars == <<dog, inflight, log, after_clear, config>>

vars == <<pool, now, lastOp, createCalls, onlyGet, failure_threshold,
          tunnel_health, port_health, recovery_needed, tunnel_obs, port_obs,
          threads, lock, issued, tunnel_pools, mgr_lock, heap, callers, got,
          pool_manager, managers, received,
          dog, inflight, log, after_clear, config>>

(* ------------------------- ConnectionPool ----------------------------- *)

\* d[k] = v of a Python dict
Put(d, k, v) == [x \in DOMAIN d \cup {k} |-> IF x = k THEN v ELSE d[x]]

EmptyDict == [x \in {} |-> 0]

ConnectionMetrics == [reuses |-> 0]

NewPool(pool_size, reuse_probability) ==
    [ pool_size |-> pool_size,
      reuse_probability |-> reuse_probability,
      connections |-> EmptyDict,
      metrics |-> EmptyDict,
      connection_id_counter |-> 0,
      stats |-> [total_created |-> 0, total_reused |-> 0,
                 total_closed |-> 0, current_active |-> 0] ]

\* lastOp before any call
NoOp == [op |-> "none", ret |-> None, branch |-> "none"]

\* [c_id for c_id, conn in connections.items() if conn["state"] == "active"]
ActiveIds(self) ==
    {c \in DOMAIN self.connections : self.connections[c].state = "active"}

ClosedIds(self) ==
    {c \in DOMAIN self.connections : self.connections[c].state = "closed"}

\* self.connection_id_counter += 1
IncrementCounter(self) == [self EXCEPT !.connection_id_counter = @ + 1]

\* the rest of create_connection without stats["total_created"] += 1
InsertConnection_uncounted(self, conn_id, t) ==
    LET s2 == [self EXCEPT !.connections =
                   Put(@, conn_id, [state |-> "active", last_activity |-> t])]
        s3 == [s2 EXCEPT !.metrics = Put(@, conn_id, ConnectionMetrics)]
    IN  [s3 EXCEPT !.stats.current_active = Cardinality(ActiveIds(s3))]

\* the rest of create_connection: the table entry, the metrics, the stats.
\* created_at is written here and read nowhere: the entry keeps state and
\* last_activity.
InsertConnection(self, conn_id, t) ==
    LET s2 == [self EXCEPT !.connections =
                   Put(@, conn_id, [state |-> "active", last_activity |-> t])]
        s3 == [s2 EXCEPT !.metrics = Put(@, conn_id, ConnectionMetrics)]
        s4 == [s3 EXCEPT !.stats.total_created = @ + 1]
    IN  [s4 EXCEPT !.stats.current_active = Cardinality(ActiveIds(s4))]

\* create_connection: the new pool, the id returned, and the number of
\* create_connection executions (1)
create_connection(self, t) ==
    LET conn_id == self.connection_id_counter
        s1 == IncrementCounter(self)
    IN  [self |-> InsertConnection(s1, conn_id, t), ret |-> conn_id,
         creates |-> 1]

\* close_connection that reports whether it changed the state
close_connection_by_state(self, conn_id) ==
    IF conn_id \in DOMAIN self.connections
    THEN [self |-> [self EXCEPT !.connections[conn_id].state = "closed",
                                !.stats.total_closed = @ + 1],
          ret |-> self.connections[conn_id].state = "active"]
    ELSE [self |-> self, ret |-> FALSE]

\* close_connection: the new pool and the boolean returned
close_connection(self, conn_id) ==
    IF conn_id \in DOMAIN self.connections
    THEN [self |-> [self EXCEPT !.connections[conn_id].state = "closed",
                                !.stats.total_closed = @ + 1],
          ret |-> TRUE]
    ELSE [self |-> self, ret |-> FALSE]

\* the loop of _get_oldest_connection over connections.items(), which a dict
\* yields in insertion order, the order of the ids
RECURSIVE OldestScan(_, _, _, _)
OldestScan(self, i, oldest_conn_id, oldest_time) ==
    IF i >= self.connection_id_counter THEN oldest_conn_id
    ELSE IF /\ i \in DOMAIN self.connections
            /\ self.connections[i].state = "active"
            /\ self.connections[i].last_activity < oldest_time
         THEN OldestScan(self, i + 1, i, self.connections[i].last_activity)
         ELSE OldestScan(self, i + 1, oldest_conn_id, oldest_time)

\* _get_oldest_connection: oldest_time starts at time.time()
GetOldestConnection(self, t) == OldestScan(self, 0, None, t)

\* the reuse branch of get_connection, for the id random.choice picked
ReuseConnection(self, conn_id, t) ==
    [self |-> [self EXCEPT !.connections[conn_id].last_activity = t,
                           !.metrics[conn_id].reuses = @ + 1,
                           !.stats.total_reused = @ + 1],
     ret |-> conn_id, creates |-> 0, branch |-> "reuse"]

\* the pool-full branch of get_connection that closes the oldest connection
\* and creates a new one
EvictAndCreate(self, t) ==
    LET old_conn_id == GetOldestConnection(self, t)
        s1 == IF old_conn_id # None
              THEN close_connection(self, old_conn_id).self
              ELSE self
        r == create_connection(s1, t)
    IN  [self |-> r.self, ret |-> r.ret, creates |-> r.creates,
         branch |-> "evict"]

\* get_connection, the first test: the ids random.choice may pick when the
\* draw is below reuse_probability
ReuseChoices(self, force_new) ==
    IF ~force_new /\ ActiveIds(self) # {}
    THEN {a \in ActiveIds(self) : \E r \in Draws : r < self.reuse_probability}
    ELSE {}

\* the first test may fail: the draw is not made, or is >= reuse_probability
FallsThrough(self, force_new) ==
    \/ force_new
    \/ ActiveIds(self) = {}
    \/ \E r \in Draws : ~(r < self.reuse_probability)

\* len(active_connections) < self.pool_size
BelowLimit(self) == Cardinality(ActiveIds(self)) < self.pool_size

\* the pool-full reuse picking among all the entries of the table
FullReuseChoices_any(self) ==
    {a \in DOMAIN self.connections : \E r \in Draws : r < EvictThreshold}

\* pool full: the ids random.choice may pick when the draw is below 0.5
FullReuseChoices(self) ==
    {a \in ActiveIds(self) : \E r \in Draws : r < EvictThreshold}

\* pool full: the else branch may be taken
MayEvict(self) ==
    \E r \in Draws : ~(r < EvictThreshold /\ ActiveIds(self) # {})

\* get_connection: every result the random draws allow
get_connection(self, force_new, t) ==
    LET reuse == {ReuseConnection(self, c, t) : c \in ReuseChoices(self, force_new)}
        rest ==
            IF BelowLimit(self)
            THEN LET r == create_connection(self, t)
                 IN  {[self |-> r.self, ret |-> r.ret, creates |-> r.creates,
                       branch |-> "create"]}
            ELSE {[self |-> self, ret |-> c, creates |-> 0,
                   branch |-> "full_reuse"] : c \in FullReuseChoices(self)}
                 \cup
                 (IF MayEvict(self) THEN {EvictAndCreate(self, t)} ELSE {})
    IN  reuse \cup (IF FallsThrough(self, force_new) THEN rest ELSE {})

\* what the model's bounds allow a pool to grow to
WithinBounds(self) ==
    /\ self.connection_id_counter <= MaxConns
    /\ self.stats.total_reused <= MaxReused
    /\ self.stats.total_closed <= MaxClosed

\* one request of get_chaotic_connection_pattern: create_connection on a draw
\* below 0.3, get_connection otherwise
ChaoticRequest(self, t) ==
    (IF \E r \in Draws : r < NewConnThreshold
     THEN LET r == create_connection(self, t)
          IN  {[self |-> r.self, ret |-> r.ret, creates |-> r.creates]}
     ELSE {})
    \cup
    (IF \E r \in Draws : ~(r < NewConnThreshold)
     THEN {[self |-> g.self, ret |-> g.ret, creates |-> g.creates] :
             g \in get_connection(self, FALSE, t)}
     ELSE {})

\* get_chaotic_connection_pattern: every result of num_requests requests; the
\* pattern is the list of connection ids (the delays touch no state). A pool
\* past the model's bounds is dropped at once: its counters only grow.
RECURSIVE get_chaotic_connection_pattern(_, _, _)
get_chaotic_connection_pattern(self, num_requests, t) ==
    IF num_requests = 0
    THEN {[self |-> self, ret |-> <<>>, creates |-> 0]}
    ELSE UNION {
           {[self |-> q.self, ret |-> Append(p.ret, q.ret),
             creates |-> p.creates + q.creates] : q \in ChaoticRequest(p.self, t)} :
           p \in {x \in get_chaotic_connection_pattern(self, num_requests - 1, t) :
                    WithinBounds(x.self)}}

(* --------------------------- HealthMonitor ---------------------------- *)

\* HealthStatus(healthy=..., message=..., last_check=...): failure_count
\* defaults to 0; message and last_check are written for the log only
HealthStatus(healthy) == [healthy |-> healthy, failure_count |-> 0]

\* del d[k]
Del(d, k) == [x \in DOMAIN d \ {k} |-> d[x]]

\* what running a probe's shell command may do: the process exits with a
\* return code, subprocess.run raises TimeoutExpired after 10 seconds, or it
\* raises something else; matches says whether the output holds what the
\* probe looks for ("UP", "inet ", the tunnel's line)
Executions == [how : {"exit", "timeout", "raise"}, returncode : {0, 1},
               matches : BOOLEAN]

\* run_command: (returncode == 0, stdout, stderr), and (False, "", ...) from
\* both except clauses
run_command(e) ==
    IF e.how = "exit"
    THEN [success |-> e.returncode = 0, matches |-> e.matches]
    ELSE [success |-> FALSE, matches |-> FALSE]

\* check_tunnel_interface_up: "ip link show" succeeds with UP in its output,
\* then "ip addr show" succeeds with "inet " in its output
check_tunnel_interface_up(link, addr) ==
    IF ~run_command(link).success THEN FALSE
    ELSE IF ~run_command(link).matches THEN FALSE
    ELSE run_command(addr).success /\ run_command(addr).matches

\* check_tunnel_connectivity: "ip l2tp show tunnel" succeeds and its output
\* matches the pattern
check_tunnel_connectivity(show) ==
    IF ~run_command(show).success THEN FALSE
    ELSE run_command(show).matches

\* check_port_listening: ss, then netstat; the first that succeeds gives True
check_port_listening(ss, netstat) ==
    IF run_command(ss).success THEN TRUE
    ELSE IF run_command(netstat).success THEN TRUE
    ELSE FALSE

\* get_tunnel_status: both probes must hold
get_tunnel_status(interface_up, tunnel_active) ==
    HealthStatus(interface_up /\ tunnel_active)

\* get_port_forward_status
get_port_forward_status(listening) == HealthStatus(listening)

\* the tracking with old_status.failure_count + 1 written without the + 1
track_tunnel_failure_stuck(health, tunnel_name, status) ==
    IF tunnel_name \in DOMAIN health
    THEN LET old_status == health[tunnel_name]
         IN  IF ~status.healthy /\ ~old_status.healthy
             THEN [status EXCEPT !.failure_count = old_status.failure_count]
             ELSE IF status.healthy
                  THEN [status EXCEPT !.failure_count = 0]
                  ELSE status
    ELSE [status EXCEPT !.failure_count = IF status.healthy THEN 0 ELSE 1]

\* check_all_tunnel_health, "Track failure count": the status stored for
\* tunnel_name after a probe that gave status
track_tunnel_failure(health, tunnel_name, status) ==
    IF tunnel_name \in DOMAIN health
    THEN LET old_status == health[tunnel_name]
         IN  IF ~status.healthy /\ ~old_status.healthy
             THEN [status EXCEPT !.failure_count = old_status.failure_count + 1]
             ELSE IF status.healthy
                  THEN [status EXCEPT !.failure_count = 0]
                  ELSE status
    ELSE [status EXCEPT !.failure_count = IF status.healthy THEN 0 ELSE 1]

\* check_all_port_health, "Track failure count"
track_port_failure(health, port, status) ==
    IF port \in DOMAIN health
    THEN LET old_status == health[port]
         IN  IF ~status.healthy /\ ~old_status.healthy
             THEN [status EXCEPT !.failure_count = old_status.failure_count + 1]
             ELSE IF status.healthy
                  THEN [status EXCEPT !.failure_count = 0]
                  ELSE status
    ELSE [status EXCEPT !.failure_count = IF status.healthy THEN 0 ELSE 1]

\* check_all_tunnel_health: tunnel_health after the tunnels of the list were
\* probed in order; an element is a tunnel's name with what its two probes gave
RECURSIVE check_all_tunnel_health(_, _)
check_all_tunnel_health(health, tunnels) ==
    IF tunnels = <<>> THEN health
    ELSE LET tunnel_config == Head(tunnels)
             status == get_tunnel_status(tunnel_config.interface_up,
                                         tunnel_config.tunnel_active)
         IN  check_all_tunnel_health(
                 Put(health, tunnel_config.name,
                     track_tunnel_failure(health, tunnel_config.name, status)),
                 Tail(tunnels))

\* check_all_port_health: port_health after the ports of the list were probed
\* in order; an element is a port with what its probe gave
RECURSIVE check_all_port_health(_, _)
check_all_port_health(health, ports) ==
    IF ports = <<>> THEN health
    ELSE LET p == Head(ports)
             status == get_port_forward_status(p.listening)
         IN  check_all_port_health(
                 Put(health, p.port, track_port_failure(health, p.port, status)),
                 Tail(ports))

\* should_attempt_recovery with > for >=
should_attempt_recovery_strict(status, threshold) ==
    IF status.healthy THEN FALSE
    ELSE status.failure_count > threshold

\* should_attempt_recovery
should_attempt_recovery(status, threshold) ==
    IF status.healthy THEN FALSE
    ELSE status.failure_count >= threshold

\* get_recovery_needed: the names and the ports of the two lists
get_recovery_needed(t_health, p_health, threshold) ==
    [tunnels |-> {name \in DOMAIN t_health :
                    should_attempt_recovery(t_health[name], threshold)},
     ports |-> {port \in DOMAIN p_health :
                    should_attempt_recovery(p_health[port], threshold)}]

\* clear_port_health that keeps the record
clear_port_health_keep(health, port) == health

\* clear_port_health
clear_port_health(health, port) ==
    IF port \in DOMAIN health THEN Del(health, port) ELSE health

(* what was observed of an entity: the record the last probe found ("absent",
   "healthy" or "unhealthy", with its failure_count), what the probe gave, and
   the number of failed probes since the last healthy one *)
Observe(obs, health, key, ok) ==
    Put(obs, key,
        [prev |-> IF key \notin DOMAIN health THEN "absent"
                  ELSE IF health[key].healthy THEN "healthy" ELSE "unhealthy",
         prev_count |-> IF key \in DOMAIN health
                        THEN health[key].failure_count ELSE 0,
         ok |-> ok,
         streak |-> IF ok THEN 0
                    ELSE IF key \in DOMAIN obs THEN obs[key].streak + 1 ELSE 1])

RECURSIVE ObserveTunnels(_, _, _)
ObserveTunnels(obs, health, tunnels) ==
    IF tunnels = <<>> THEN obs
    ELSE LET c == Head(tunnels)
         IN  ObserveTunnels(
                 Observe(obs, health, c.name, c.interface_up /\ c.tunnel_active),
                 check_all_tunnel_health(health, <<c>>), Tail(tunnels))

RECURSIVE ObservePorts(_, _, _)
ObservePorts(obs, health, ports) ==
    IF ports = <<>> THEN obs
    ELSE LET p == Head(ports)
         IN  ObservePorts(Observe(obs, health, p.port, p.listening),
                          check_all_port_health(health, <<p>>), Tail(ports))

(* ---------------------- SpecHealth: one monitor ----------------------- *)

NoResult == [called |-> FALSE, tunnels |-> {}, ports |-> {}]

\* the monitor is not in use
HealthIdle ==
    /\ failure_threshold = 1
    /\ tunnel_health = EmptyDict
    /\ port_health = EmptyDict
    /\ recovery_needed = NoResult
    /\ tunnel_obs = EmptyDict
    /\ port_obs = EmptyDict

\* the threads' names
Threads == {"t1", "t2"}

\* a thread outside the pool's code
IdleThread == [pc |-> "idle", stack |-> <<>>, conn_id |-> None,
               force_new |-> FALSE, remaining |-> 0]

Unlocked == [owner |-> "none", count |-> 0]

\* no thread is running
ConcIdle ==
    /\ threads = [t \in Threads |-> IdleThread]
    /\ lock = Unlocked
    /\ issued = <<>>

\* the pool is not in use
PoolIdle ==
    /\ pool = NewPool(1, 0)
    /\ now = 0
    /\ lastOp = NoOp
    /\ createCalls = 0
    /\ onlyGet = TRUE

\* a thread outside the manager's code
IdleCaller == [pc |-> "idle", stack |-> <<>>, tunnel_name |-> "",
               pool_size |-> 0, pool_ref |-> None, pending |-> {},
               manager |-> None]

\* the manager is not in use
MgrIdle ==
    /\ tunnel_pools = EmptyDict
    /\ mgr_lock = Unlocked
    /\ heap = <<>>
    /\ callers = [t \in Threads |-> IdleCaller]
    /\ got = {}
    /\ pool_manager = None
    /\ managers = <<>>
    /\ received = {}

\* TunnelWatchdog.__init__: running is False; the coroutine run() has not
\* started
NewDog == [pc |-> "start", running |-> FALSE, stopped |-> FALSE, rt |-> <<>>,
           rp |-> <<>>, ports |-> <<>>, result |-> "none"]

\* the watchdog is not in use
DogIdle ==
    /\ dog = NewDog
    /\ inflight = {}
    /\ log = <<>>
    /\ after_clear = EmptyDict
    /\ config = <<>>

SeqsUpTo(S, n) == UNION {[1..k -> S] : k \in 0..n}

TunnelProbes == [name : TunnelNames, interface_up : BOOLEAN, tunnel_active : BOOLEAN]
PortProbes == [port : Ports, listening : BOOLEAN]

\* the lists check_health passes: one entry per configured tunnel, and the
\* tunnels' forwarded_ports one after the other, where a port may repeat
TunnelLists ==
    {s \in SeqsUpTo(TunnelProbes, Cardinality(TunnelNames)) :
        \A i, j \in 1..Len(s) : i # j => s[i].name # s[j].name}
PortLists == SeqsUpTo(PortProbes, MaxBatch)

FailuresWithinBounds(health) ==
    \A k \in DOMAIN health : health[k].failure_count <= MaxFailures

HealthInit ==
    /\ PoolIdle
    /\ ConcIdle
    /\ MgrIdle
    /\ DogIdle
    /\ failure_threshold \in Thresholds
    /\ tunnel_health = EmptyDict
    /\ port_health = EmptyDict
    /\ recovery_needed = NoResult
    /\ tunnel_obs = EmptyDict
    /\ port_obs = EmptyDict

CheckAllTunnelHealth(tunnels) ==
    LET h == check_all_tunnel_health(tunnel_health, tunnels)
    IN  /\ FailuresWithinBounds(h)
        /\ tunnel_health' = h
        /\ tunnel_obs' = ObserveTunnels(tunnel_obs, tunnel_health, tunnels)
        /\ recovery_needed' = NoResult
        /\ UNCHANGED <<failure_threshold, port_health, port_obs, poolVars, concVars,
                   mgrVars, dogVars>>

CheckAllPortHealth(ports) ==
    LET h == check_all_port_health(port_health, ports)
    IN  /\ FailuresWithinBounds(h)
        /\ port_health' = h
        /\ port_obs' = ObservePorts(port_obs, port_health, ports)
        /\ recovery_needed' = NoResult
        /\ UNCHANGED <<failure_threshold, tunnel_health, tunnel_obs, poolVars, concVars,
                   mgrVars, dogVars>>

GetRecoveryNeeded ==
    LET r == get_recovery_needed(tunnel_health, port_health, failure_threshold)
    IN  /\ recovery_needed' = [called |-> TRUE, tunnels |-> r.tunnels,
                               ports |-> r.ports]
        /\ UNCHANGED <<failure_threshold, tunnel_health, port_health,
                       tunnel_obs, port_obs, poolVars, concVars,
                   mgrVars, dogVars>>

ClearPortHealth(port) ==
    /\ port_health' = clear_port_health(port_health, port)
    /\ port_obs' = clear_port_health(port_obs, port)
    /\ recovery_needed' = NoResult
    /\ UNCHANGED <<failure_threshold, tunnel_health, tunnel_obs, poolVars, concVars,
                   mgrVars, dogVars>>

HealthNext ==
    \/ \E tunnels \in TunnelLists : CheckAllTunnelHealth(tunnels)
    \/ \E ports \in PortLists : CheckAllPortHealth(ports)
    \/ GetRecoveryNeeded
    \/ \E port \in Ports : ClearPortHealth(port)

SpecHealth == HealthInit /\ [][HealthNext]_vars

(* -------------------- HealthMonitor: the properties ------------------- *)

\* the failed probe found no record or a healthy one
FirstFailure(o) == ~o.ok /\ o.prev \in {"absent", "healthy"}

\* C2: a failed probe of a tunnel or port that had no record or a healthy one
\* stores failure_count 1
C2_FirstFailureCountsOne ==
    /\ \A name \in DOMAIN tunnel_obs :
          FirstFailure(tunnel_obs[name]) => tunnel_health[name].failure_count = 1
    /\ \A port \in DOMAIN port_obs :
          FirstFailure(port_obs[port]) => port_health[port].failure_count = 1

\* C3: the stored failure_count is the number of failed probes since the last
\* healthy one, so that an entity is recovery-eligible exactly from the
\* failure_threshold-th failed probe in a row
C3_CountIsStreak ==
    /\ \A name \in DOMAIN tunnel_obs :
          /\ tunnel_health[name].failure_count = tunnel_obs[name].streak
          /\ should_attempt_recovery(tunnel_health[name], failure_threshold)
               <=> tunnel_obs[name].streak >= failure_threshold
    /\ \A port \in DOMAIN port_obs :
          /\ port_health[port].failure_count = port_obs[port].streak
          /\ should_attempt_recovery(port_health[port], failure_threshold)
               <=> port_obs[port].streak >= failure_threshold

\* what C4 asks of a record, given what was observed at its last probe
ResetOrIncrement(status, o) ==
    /\ o.ok => status.failure_count = 0
    /\ (~o.ok /\ o.prev = "unhealthy") => status.failure_count = o.prev_count + 1

\* C4: the stored failure_count is 0 right after a healthy probe, and the
\* previous failure_count plus 1 after a failed probe that follows a failed one
C4_ResetOrIncrement ==
    /\ \A name \in DOMAIN tunnel_obs :
          ResetOrIncrement(tunnel_health[name], tunnel_obs[name])
    /\ \A port \in DOMAIN port_obs :
          ResetOrIncrement(port_health[port], port_obs[port])

\* a tunnel failed twice in a row from a count of at least 1, and a port
\* turned healthy after a failure
C4_Witness ==
    /\ \E name \in DOMAIN tunnel_obs :
          /\ ~tunnel_obs[name].ok
          /\ tunnel_obs[name].prev = "unhealthy"
          /\ tunnel_obs[name].prev_count >= 1
    /\ \E port \in DOMAIN port_obs :
          port_obs[port].ok /\ port_obs[port].prev = "unhealthy"

\* the statuses a record can hold within the bounds
Statuses == [healthy : BOOLEAN, failure_count : 0..MaxFailures]

Eligible(status) == ~status.healthy /\ status.failure_count >= failure_threshold

\* C5: should_attempt_recovery(status) is true iff status is unhealthy with
\* failure_count >= failure_threshold, and get_recovery_needed returns exactly
\* the tunnels and ports whose record is so
C5_RecoveryEligibility ==
    /\ \A status \in Statuses :
          should_attempt_recovery(status, failure_threshold) <=> Eligible(status)
    /\ recovery_needed.called =>
          /\ recovery_needed.tunnels =
                {name \in DOMAIN tunnel_health : Eligible(tunnel_health[name])}
          /\ recovery_needed.ports =
                {port \in DOMAIN port_health : Eligible(port_health[port])}

\* get_recovery_needed returned a tunnel and a port and left out an unhealthy
\* port below the threshold
C5_Witness ==
    /\ recovery_needed.called
    /\ recovery_needed.tunnels # {}
    /\ recovery_needed.ports # {}
    /\ \E port \in DOMAIN port_health :
          /\ ~port_health[port].healthy
          /\ port \notin recovery_needed.ports

\* the command did not exit with return code 0
CommandFails(e) == e.how # "exit" \/ e.returncode # 0

\* what C24 asks of a record, given what its last probe gave
RecordedAndCounted(status, o) ==
    /\ status.healthy = o.ok
    /\ ~o.ok => status.failure_count >= 1

\* C24: a probe is True or False whatever its commands do, and False when a
\* command it needs fails, times out or raises; a tunnel's status is healthy
\* iff both its probes are True, a port's iff its probe is; and the record
\* stored after a failed probe is unhealthy with the failure counted
C24_ProbesNeverRaise ==
    /\ \A e1, e2 \in Executions :
          /\ check_tunnel_interface_up(e1, e2) \in BOOLEAN
          /\ check_tunnel_connectivity(e1) \in BOOLEAN
          /\ check_port_listening(e1, e2) \in BOOLEAN
          /\ (CommandFails(e1) \/ CommandFails(e2)) =>
                ~check_tunnel_interface_up(e1, e2)
          /\ CommandFails(e1) => ~check_tunnel_connectivity(e1)
          /\ (CommandFails(e1) /\ CommandFails(e2)) => ~check_port_listening(e1, e2)
    /\ \A interface_up, tunnel_active \in BOOLEAN :
          /\ get_tunnel_status(interface_up, tunnel_active).healthy
                <=> (interface_up /\ tunnel_active)
          /\ get_port_forward_status(interface_up).healthy <=> interface_up
    /\ \A name \in DOMAIN tunnel_obs :
          RecordedAndCounted(tunnel_health[name], tunnel_obs[name])
    /\ \A port \in DOMAIN port_obs :
          RecordedAndCounted(port_health[port], port_obs[port])

(* ------------------------- Spec: one caller --------------------------- *)

Init ==
    /\ pool \in {NewPool(n, p) : n \in PoolSizes, p \in ReuseProbabilities}
    /\ now = 0
    /\ lastOp = NoOp
    /\ createCalls = 0
    /\ onlyGet = TRUE
    /\ HealthIdle
    /\ ConcIdle
    /\ MgrIdle
    /\ DogIdle

\* time passes between two calls
Tick ==
    /\ now < MaxClock
    /\ now' = now + 1
    /\ UNCHANGED <<pool, lastOp, createCalls, onlyGet, healthVars, concVars,
                   mgrVars, dogVars>>

CreateConnection ==
    LET r == create_connection(pool, now)
    IN  /\ WithinBounds(r.self)
        /\ pool' = r.self
        /\ lastOp' = [op |-> "create_connection",
                      ret |-> r.ret, branch |-> "none"]
        /\ createCalls' = createCalls + r.creates
        /\ onlyGet' = FALSE
        /\ UNCHANGED <<now, healthVars, concVars,
                   mgrVars, dogVars>>

CloseConnection(conn_id) ==
    LET r == close_connection(pool, conn_id)
    IN  /\ WithinBounds(r.self)
        /\ pool' = r.self
        /\ lastOp' = [op |-> "close_connection",
                      ret |-> IF r.ret THEN 1 ELSE 0, branch |-> "none"]
        /\ onlyGet' = FALSE
        /\ UNCHANGED <<now, createCalls, healthVars, concVars,
                   mgrVars, dogVars>>

GetConnection(force_new) ==
    \E r \in get_connection(pool, force_new, now) :
        /\ WithinBounds(r.self)
        /\ pool' = r.self
        /\ lastOp' = [op |-> "get_connection",
                      ret |-> r.ret, branch |-> r.branch]
        /\ createCalls' = createCalls + r.creates
        /\ UNCHANGED <<now, onlyGet, healthVars, concVars,
                   mgrVars, dogVars>>

GetChaoticConnectionPattern(num_requests) ==
    \E r \in get_chaotic_connection_pattern(pool, num_requests, now) :
        /\ WithinBounds(r.self)
        /\ pool' = r.self
        /\ lastOp' = [op |-> "get_chaotic_connection_pattern",
                      ret |-> None,
                      branch |-> "none"]
        /\ createCalls' = createCalls + r.creates
        /\ onlyGet' = FALSE
        /\ UNCHANGED <<now, healthVars, concVars,
                   mgrVars, dogVars>>

\* the ids a caller may pass to close_connection: issued ones and one never issued
ConnIds == 0..MaxConns

Next ==
    \/ Tick
    \/ CreateConnection
    \/ \E conn_id \in ConnIds : CloseConnection(conn_id)
    \/ \E force_new \in BOOLEAN : GetConnection(force_new)
    \/ \E num_requests \in RequestCounts : GetChaoticConnectionPattern(num_requests)

Spec == Init /\ [][Next]_vars

(* ------------------- ConnectionPool: the properties ------------------- *)

LastActivity(self, c) == self.connections[c].last_activity

\* a step that is a call of get_connection
GetConnectionStep == \E force_new \in BOOLEAN : GetConnection(force_new)

\* C1: stats["current_active"] equals the number of entries of the connection
\* table whose state is "active", after any sequence of calls
C1_CurrentActiveMatches ==
    pool.stats.current_active = Cardinality(ActiveIds(pool))

\* C7: a get_connection call that takes the evict branch closes exactly one
\* connection, an active one whose last_activity is the minimum over the
\* active connections
C7_EvictClosesOldest ==
    [][(GetConnectionStep /\ lastOp'.branch = "evict") =>
         \E c \in ActiveIds(pool) :
            /\ \A a \in ActiveIds(pool) : LastActivity(pool, c) <= LastActivity(pool, a)
            /\ ActiveIds(pool) \ ActiveIds(pool') = {c}]_vars

\* C8: on a pool used through get_connection only, the number of active
\* connections never exceeds pool_size, and a call made at capacity either
\* returns an active id and creates nothing, or closes one active connection
\* and returns the next fresh id, the active count unchanged
C8_PoolSizeBound ==
    [][(GetConnectionStep /\ onlyGet') =>
         /\ Cardinality(ActiveIds(pool')) <= pool'.pool_size
         /\ Cardinality(ActiveIds(pool)) = pool.pool_size =>
              \/ /\ lastOp'.ret \in ActiveIds(pool)
                 /\ DOMAIN pool'.connections = DOMAIN pool.connections
              \/ /\ lastOp'.ret = pool.connection_id_counter
                 /\ Cardinality(ActiveIds(pool) \ ActiveIds(pool')) = 1
                 /\ Cardinality(ActiveIds(pool')) = Cardinality(ActiveIds(pool))]_vars

\* C9: stats["total_created"] equals the number of create_connection
\* executions, those made inside get_connection and
\* get_chaotic_connection_pattern included, and the number of entries of the
\* connection table
C9_TotalCreatedCounts ==
    /\ pool.stats.total_created = createCalls
    /\ pool.stats.total_created = Cardinality(DOMAIN pool.connections)

\* every connection so far was created inside get_connection, the last one
\* after an eviction
C9_Witness ==
    /\ onlyGet
    /\ lastOp.op = "get_connection"
    /\ lastOp.branch = "evict"
    /\ createCalls = 2

\* C10: close_connection(id) returns true exactly when id is in the connection
\* table, whatever its state, and leaves it closed; for an id not in the table
\* it returns false and changes nothing of the pool
C10_CloseByMembership ==
    [][\A conn_id \in ConnIds :
         CloseConnection(conn_id) =>
           /\ (lastOp'.ret = 1) <=> (conn_id \in DOMAIN pool.connections)
           /\ conn_id \in DOMAIN pool.connections =>
                /\ conn_id \in DOMAIN pool'.connections
                /\ pool'.connections[conn_id].state = "closed"
           /\ conn_id \notin DOMAIN pool.connections =>
                /\ lastOp'.ret = 0
                /\ pool' = pool]_vars

\* the last call closed a connection and returned true, and some connection
\* was closed when it was closed already
C10_Witness ==
    /\ lastOp.op = "close_connection"
    /\ lastOp.ret = 1
    /\ pool.stats.total_closed > Cardinality(ClosedIds(pool))

\* C11: no step removes an entry of the connection table, a closed
\* connection stays closed, and get_connection never returns a closed one
C11_AppendOnlyHistory ==
    [][/\ DOMAIN pool.connections \subseteq DOMAIN pool'.connections
       /\ ClosedIds(pool) \subseteq ClosedIds(pool')
       /\ GetConnectionStep => lastOp'.ret \notin ClosedIds(pool')]_vars

\* get_connection returned an existing connection of a pool that holds a
\* closed one
C11_Witness ==
    /\ lastOp.op = "get_connection"
    /\ lastOp.branch \in {"reuse", "full_reuse"}
    /\ ClosedIds(pool) # {}

\* C12: get_connection(force_new=True) returns an id that was not in the
\* connection table before the call
C12_ForceNewCreates ==
    [][GetConnection(TRUE) => lastOp'.ret \notin DOMAIN pool.connections]_vars

\* C27: a get_connection that returns an id that was in the connection table
\* before the call adds one to stats["total_reused"] and to the connection's
\* reuses, and sets its last_activity to the time of the call, so that no
\* other active connection was used after it
C27_ReuseAccounting ==
    [][(GetConnectionStep /\ lastOp'.ret \in DOMAIN pool.connections) =>
          /\ pool'.stats.total_reused = pool.stats.total_reused + 1
          /\ pool'.metrics[lastOp'.ret].reuses =
                pool.metrics[lastOp'.ret].reuses + 1
          /\ LastActivity(pool', lastOp'.ret) = now
          /\ \A a \in ActiveIds(pool') :
                LastActivity(pool', a) <= LastActivity(pool', lastOp'.ret)]_vars

\* C28: stats["total_closed"] is the number of entries of the connection
\* table in state closed, and stats["total_created"] the number of active
\* entries plus stats["total_closed"]
C28_ClosedAccounting ==
    /\ pool.stats.total_closed = Cardinality(ClosedIds(pool))
    /\ pool.stats.total_created =
          Cardinality(ActiveIds(pool)) + pool.stats.total_closed

(* ------------- SpecConc: threads sharing one ConnectionPool ----------- *)

(* A thread runs the pool's methods statement by statement. A call of a
   method is the step that acquires self.lock, the method's first statement:
   a thread that waits for the lock is a thread that has not called yet. A
   call pushes the label to return to. pc: idle, cc_* in create_connection,
   cl_* in close_connection, gc_* in get_connection, ch_loop between two
   requests of get_chaotic_connection_pattern. *)

\* the pool the threads share
ConcPool == NewPool(1, DefaultReuseProbability)

\* an RLock that does not exclude
CanAcquire_any(t) == TRUE

\* threading.RLock: free, or held by the thread itself
CanAcquire(t) == lock.owner \in {"none", t}

Acquire(t) ==
    /\ CanAcquire(t)
    /\ lock' = [owner |-> t, count |-> lock.count + 1]

Release(t) ==
    lock' = IF lock.count <= 1 THEN Unlocked
            ELSE [lock EXCEPT !.count = @ - 1]

\* a call of the code at label target, to return to label back
Call(th, target, back) == [th EXCEPT !.pc = target, !.stack = <<back>> \o @]

\* the return of a call
Return(th) == [th EXCEPT !.pc = Head(th.stack), !.stack = Tail(th.stack)]

ConcInit ==
    /\ pool = ConcPool
    /\ now = 0
    /\ lastOp = NoOp
    /\ createCalls = 0
    /\ onlyGet = TRUE
    /\ HealthIdle
    /\ ConcIdle
    /\ MgrIdle
    /\ DogIdle

ConcTick ==
    /\ now < MaxClock
    /\ now' = now + 1
    /\ UNCHANGED <<pool, lastOp, createCalls, onlyGet, healthVars, concVars,
                   mgrVars, dogVars>>

\* what a step of the pool's code leaves alone
Frame == UNCHANGED <<now, lastOp, createCalls, onlyGet, healthVars, mgrVars, dogVars>>

\* create_connection(), called by an idle thread: with self.lock
CallCreate(t) ==
    /\ threads[t].pc = "idle"
    /\ pool.connection_id_counter < MaxConns
    /\ Acquire(t)
    /\ threads' = [threads EXCEPT ![t] = Call(@, "cc_read", "idle")]
    /\ UNCHANGED <<pool, issued>> /\ Frame

\* conn_id = self.connection_id_counter
CcRead(t) ==
    /\ threads[t].pc = "cc_read"
    /\ threads' = [threads EXCEPT ![t].pc = "cc_incr",
                                  ![t].conn_id = pool.connection_id_counter]
    /\ UNCHANGED <<pool, lock, issued>> /\ Frame

\* self.connection_id_counter += 1
CcIncr(t) ==
    /\ threads[t].pc = "cc_incr"
    /\ pool' = IncrementCounter(pool)
    /\ threads' = [threads EXCEPT ![t].pc = "cc_insert"]
    /\ UNCHANGED <<lock, issued>> /\ Frame

\* the table entry, the metrics, the stats
CcInsert(t) ==
    /\ threads[t].pc = "cc_insert"
    /\ pool' = InsertConnection(pool, threads[t].conn_id, now)
    /\ threads' = [threads EXCEPT ![t].pc = "cc_unlock"]
    /\ UNCHANGED <<lock, issued>> /\ Frame

\* return conn_id, which leaves the with block
CcUnlock(t) ==
    /\ threads[t].pc = "cc_unlock"
    /\ Release(t)
    /\ issued' = Append(issued, threads[t].conn_id)
    /\ threads' = [threads EXCEPT ![t] = Return([@ EXCEPT !.conn_id = None])]
    /\ UNCHANGED pool /\ Frame

\* close_connection(conn_id), called by an idle thread: with self.lock
CallClose(t, conn_id) ==
    /\ threads[t].pc = "idle"
    /\ pool.stats.total_closed < MaxClosed
    /\ Acquire(t)
    /\ threads' = [threads EXCEPT
                     ![t] = Call([@ EXCEPT !.conn_id = conn_id], "cl_body", "idle")]
    /\ UNCHANGED <<pool, issued>> /\ Frame

\* the body of close_connection
ClBody(t) ==
    /\ threads[t].pc = "cl_body"
    /\ pool' = close_connection(pool, threads[t].conn_id).self
    /\ threads' = [threads EXCEPT ![t].pc = "cl_unlock"]
    /\ UNCHANGED <<lock, issued>> /\ Frame

\* return, which leaves the with block
ClUnlock(t) ==
    /\ threads[t].pc = "cl_unlock"
    /\ Release(t)
    /\ threads' = [threads EXCEPT ![t] = Return([@ EXCEPT !.conn_id = None])]
    /\ UNCHANGED <<pool, issued>> /\ Frame

\* get_connection(force_new), called by an idle thread: with self.lock
CallGet(t, force_new) ==
    /\ threads[t].pc = "idle"
    /\ Acquire(t)
    /\ threads' = [threads EXCEPT
                     ![t] = Call([@ EXCEPT !.force_new = force_new], "gc_body", "idle")]
    /\ UNCHANGED <<pool, issued>> /\ Frame

\* get_connection reuses a connection and returns
GcReuse(t) ==
    /\ threads[t].pc = "gc_body"
    /\ pool.stats.total_reused < MaxReused
    /\ \E c \in ReuseChoices(pool, threads[t].force_new) :
          pool' = ReuseConnection(pool, c, now).self
    /\ threads' = [threads EXCEPT ![t].pc = "gc_unlock"]
    /\ UNCHANGED <<lock, issued>> /\ Frame

\* get_connection, below the limit: return self.create_connection(), which
\* takes the lock the thread holds already
GcCreateBelowLimit(t) ==
    /\ threads[t].pc = "gc_body"
    /\ FallsThrough(pool, threads[t].force_new)
    /\ BelowLimit(pool)
    /\ pool.connection_id_counter < MaxConns
    /\ Acquire(t)
    /\ threads' = [threads EXCEPT ![t] = Call(@, "cc_read", "gc_unlock")]
    /\ UNCHANGED <<pool, issued>> /\ Frame

\* get_connection, pool full: return random.choice(active_connections)
GcFullReuse(t) ==
    /\ threads[t].pc = "gc_body"
    /\ FallsThrough(pool, threads[t].force_new)
    /\ ~BelowLimit(pool)
    /\ FullReuseChoices(pool) # {}
    /\ threads' = [threads EXCEPT ![t].pc = "gc_unlock"]
    /\ UNCHANGED <<pool, lock, issued>> /\ Frame

\* get_connection, pool full: _get_oldest_connection (under the lock the
\* thread holds), then close_connection if it found one, else create_connection
GcEvict(t) ==
    /\ threads[t].pc = "gc_body"
    /\ FallsThrough(pool, threads[t].force_new)
    /\ ~BelowLimit(pool)
    /\ MayEvict(pool)
    /\ pool.connection_id_counter < MaxConns
    /\ Acquire(t)
    /\ LET old_conn_id == GetOldestConnection(pool, now)
       IN  IF old_conn_id # None
           THEN /\ pool.stats.total_closed < MaxClosed
                /\ threads' = [threads EXCEPT
                      ![t] = Call([@ EXCEPT !.conn_id = old_conn_id],
                                  "cl_body", "gc_create")]
           ELSE threads' = [threads EXCEPT ![t] = Call(@, "cc_read", "gc_unlock")]
    /\ UNCHANGED <<pool, issued>> /\ Frame

\* get_connection after the eviction: return self.create_connection()
GcCreate(t) ==
    /\ threads[t].pc = "gc_create"
    /\ Acquire(t)
    /\ threads' = [threads EXCEPT ![t] = Call(@, "cc_read", "gc_unlock")]
    /\ UNCHANGED <<pool, issued>> /\ Frame

\* get_connection returns, which leaves the with block
GcUnlock(t) ==
    /\ threads[t].pc = "gc_unlock"
    /\ Release(t)
    /\ threads' = [threads EXCEPT ![t] = Return([@ EXCEPT !.force_new = FALSE])]
    /\ UNCHANGED <<pool, issued>> /\ Frame

\* get_chaotic_connection_pattern(num_requests), called by an idle thread; it
\* takes no lock of its own
CallChaotic(t, num_requests) ==
    /\ threads[t].pc = "idle"
    /\ threads' = [threads EXCEPT ![t] = [@ EXCEPT !.pc = "ch_loop",
                                                   !.remaining = num_requests]]
    /\ UNCHANGED <<pool, lock, issued>> /\ Frame

\* the loop ends
ChDone(t) ==
    /\ threads[t].pc = "ch_loop"
    /\ threads[t].remaining = 0
    /\ threads' = [threads EXCEPT ![t].pc = "idle"]
    /\ UNCHANGED <<pool, lock, issued>> /\ Frame

\* one request: self.create_connection() on a draw below 0.3
ChCreate(t) ==
    /\ threads[t].pc = "ch_loop"
    /\ threads[t].remaining > 0
    /\ \E r \in Draws : r < NewConnThreshold
    /\ pool.connection_id_counter < MaxConns
    /\ Acquire(t)
    /\ threads' = [threads EXCEPT
                     ![t] = Call([@ EXCEPT !.remaining = @ - 1], "cc_read", "ch_loop")]
    /\ UNCHANGED <<pool, issued>> /\ Frame

\* one request: self.get_connection() otherwise
ChGet(t) ==
    /\ threads[t].pc = "ch_loop"
    /\ threads[t].remaining > 0
    /\ \E r \in Draws : ~(r < NewConnThreshold)
    /\ Acquire(t)
    /\ threads' = [threads EXCEPT
                     ![t] = Call([@ EXCEPT !.remaining = @ - 1], "gc_body", "ch_loop")]
    /\ UNCHANGED <<pool, issued>> /\ Frame

ConcNext ==
    \/ ConcTick
    \/ \E t \in Threads : CallCreate(t)
    \/ \E t \in Threads : CcRead(t)
    \/ \E t \in Threads : CcIncr(t)
    \/ \E t \in Threads : CcInsert(t)
    \/ \E t \in Threads : CcUnlock(t)
    \/ \E t \in Threads, conn_id \in ConnIds : CallClose(t, conn_id)
    \/ \E t \in Threads : ClBody(t)
    \/ \E t \in Threads : ClUnlock(t)
    \/ \E t \in Threads, force_new \in BOOLEAN : CallGet(t, force_new)
    \/ \E t \in Threads : GcReuse(t)
    \/ \E t \in Threads : GcCreateBelowLimit(t)
    \/ \E t \in Threads : GcFullReuse(t)
    \/ \E t \in Threads : GcEvict(t)
    \/ \E t \in Threads : GcCreate(t)
    \/ \E t \in Threads : GcUnlock(t)
    \/ \E t \in Threads, num_requests \in RequestCounts : CallChaotic(t, num_requests)
    \/ \E t \in Threads : ChDone(t)
    \/ \E t \in Threads : ChCreate(t)
    \/ \E t \in Threads : ChGet(t)

SpecConc == ConcInit /\ [][ConcNext]_vars

\* C6: the ids create_connection returns, whichever thread or method called
\* it, are strictly increasing in the order they are issued, so none repeats
C6_IdsStrictlyIncreasing ==
    \A i, j \in DOMAIN issued : i < j => issued[i] < issued[j]

\* an id was issued, and one thread is inside create_connection, past reading
\* the counter, while another is between two requests of
\* get_chaotic_connection_pattern
C6_Witness ==
    /\ Len(issued) >= 1
    /\ \E t, u \in Threads :
          /\ t # u
          /\ threads[t].pc = "cc_incr"
          /\ threads[u].pc = "ch_loop"
          /\ threads[u].remaining > 0

\* C14: the pool's operations are atomic with respect to each other: while a
\* thread is inside a method of the pool, get_chaotic_connection_pattern
\* included, no step of another thread changes the pool
C14_OperationsAtomic ==
    [][\A t \in Threads :
         (threads[t].pc # "idle" /\ threads'[t] = threads[t]) => pool' = pool]_vars

(* ----------- SpecMgr: threads sharing one ConnectionPoolManager -------- *)

(* A thread runs get_pool and get_all_status of the manager, and
   get_pool_status of a pool it got, statement by statement. A ConnectionPool
   object is an element of heap, its reference the index. pc: idle, gp_* in
   get_pool, ga_* in get_all_status, ps_enter where get_pool_status is called
   and its lock is not taken yet, ps_body inside its with block. *)

\* the tunnel names passed to get_pool
PoolTunnels == {"tunA", "tunB"}

\* ConnectionPool(pool_size=pool_size), as get_pool constructs it; the object
\* also remembers the name it was constructed for
ConnectionPool(pool_size, tunnel_name) ==
    [pool_size |-> pool_size, lock |-> Unlocked, tunnel_name |-> tunnel_name]

\* a manager lock that does not exclude
MgrCanAcquire_any(t) == TRUE

\* the manager's RLock: free, or held by the thread itself
MgrCanAcquire(t) == mgr_lock.owner \in {"none", t}

MgrAcquire(t) ==
    /\ MgrCanAcquire(t)
    /\ mgr_lock' = [owner |-> t, count |-> mgr_lock.count + 1]

MgrRelease(t) ==
    mgr_lock' = IF mgr_lock.count <= 1 THEN Unlocked
                ELSE [mgr_lock EXCEPT !.count = @ - 1]

MgrInit ==
    /\ PoolIdle
    /\ HealthIdle
    /\ ConcIdle
    /\ DogIdle
    /\ MgrIdle

\* what a step of the manager's code leaves alone
MgrFrame == UNCHANGED <<poolVars, healthVars, concVars, dogVars, pool_manager,
                        managers, received>>

\* get_pool(tunnel_name, pool_size), called by an idle thread: with self.lock
GetPoolCall(t, tunnel_name, pool_size) ==
    /\ callers[t].pc = "idle"
    /\ MgrAcquire(t)
    /\ callers' = [callers EXCEPT
                     ![t] = Call([@ EXCEPT !.tunnel_name = tunnel_name,
                                           !.pool_size = pool_size],
                                 "gp_test", "idle")]
    /\ UNCHANGED <<tunnel_pools, heap, got>> /\ MgrFrame

\* if tunnel_name not in self.tunnel_pools
GpTest(t) ==
    /\ callers[t].pc = "gp_test"
    /\ callers' = [callers EXCEPT
                     ![t].pc = IF callers[t].tunnel_name \notin DOMAIN tunnel_pools
                               THEN "gp_create" ELSE "gp_return"]
    /\ UNCHANGED <<tunnel_pools, mgr_lock, heap, got>> /\ MgrFrame

\* self.tunnel_pools[tunnel_name] = ConnectionPool(pool_size=pool_size)
GpCreate(t) ==
    /\ callers[t].pc = "gp_create"
    /\ heap' = Append(heap, ConnectionPool(callers[t].pool_size,
                                           callers[t].tunnel_name))
    /\ tunnel_pools' = Put(tunnel_pools, callers[t].tunnel_name, Len(heap) + 1)
    /\ callers' = [callers EXCEPT ![t].pc = "gp_return"]
    /\ UNCHANGED <<mgr_lock, got>> /\ MgrFrame

\* return self.tunnel_pools[tunnel_name], which leaves the with block
GpReturn(t) ==
    /\ callers[t].pc = "gp_return"
    /\ got' = got \cup {<<callers[t].tunnel_name,
                          tunnel_pools[callers[t].tunnel_name]>>}
    /\ MgrRelease(t)
    /\ callers' = [callers EXCEPT
                     ![t] = Return([@ EXCEPT !.tunnel_name = "", !.pool_size = 0])]
    /\ UNCHANGED <<tunnel_pools, heap>> /\ MgrFrame

\* get_all_status(), called by an idle thread: with self.lock, then the
\* comprehension over self.tunnel_pools.items()
GetAllStatusCall(t) ==
    /\ callers[t].pc = "idle"
    /\ MgrAcquire(t)
    /\ callers' = [callers EXCEPT
                     ![t] = Call([@ EXCEPT !.pending = DOMAIN tunnel_pools],
                                 "ga_loop", "idle")]
    /\ UNCHANGED <<tunnel_pools, heap, got>> /\ MgrFrame

\* the next item of the comprehension, in insertion order:
\* pool.get_pool_status() is called
GaNext(t) ==
    /\ callers[t].pc = "ga_loop"
    /\ callers[t].pending # {}
    /\ LET tunnel_name == CHOOSE n \in callers[t].pending :
                             \A m \in callers[t].pending :
                                tunnel_pools[n] <= tunnel_pools[m]
       IN  callers' = [callers EXCEPT
                         ![t] = Call([@ EXCEPT !.pending = @ \ {tunnel_name},
                                               !.pool_ref = tunnel_pools[tunnel_name]],
                                     "ps_enter", "ga_loop")]
    /\ UNCHANGED <<tunnel_pools, mgr_lock, heap, got>> /\ MgrFrame

\* the comprehension is over: return, which leaves the with block
GaReturn(t) ==
    /\ callers[t].pc = "ga_loop"
    /\ callers[t].pending = {}
    /\ MgrRelease(t)
    /\ callers' = [callers EXCEPT ![t] = Return([@ EXCEPT !.pool_ref = None])]
    /\ UNCHANGED <<tunnel_pools, heap, got>> /\ MgrFrame

\* get_pool_status() of a pool that get_pool returned, called by an idle thread
GetPoolStatusCall(t, pool_ref) ==
    /\ callers[t].pc = "idle"
    /\ \E g \in got : g[2] = pool_ref
    /\ callers' = [callers EXCEPT
                     ![t] = Call([@ EXCEPT !.pool_ref = pool_ref], "ps_enter", "idle")]
    /\ UNCHANGED <<tunnel_pools, mgr_lock, heap, got>> /\ MgrFrame

\* get_pool_status: with self.lock, the pool's RLock
PsEnter(t) ==
    /\ callers[t].pc = "ps_enter"
    /\ heap[callers[t].pool_ref].lock.owner \in {"none", t}
    /\ heap' = [heap EXCEPT ![callers[t].pool_ref].lock =
                               [owner |-> t, count |-> @.count + 1]]
    /\ callers' = [callers EXCEPT ![t].pc = "ps_body"]
    /\ UNCHANGED <<tunnel_pools, mgr_lock, got>> /\ MgrFrame

\* get_pool_status builds the dict, which writes nothing, and returns, which
\* leaves the with block
PsReturn(t) ==
    /\ callers[t].pc = "ps_body"
    /\ heap' = [heap EXCEPT ![callers[t].pool_ref].lock =
                               IF @.count <= 1 THEN Unlocked
                               ELSE [@ EXCEPT !.count = @ - 1]]
    /\ callers' = [callers EXCEPT
                     ![t] = Return(IF Head(@.stack) = "idle"
                                   THEN [@ EXCEPT !.pool_ref = None] ELSE @)]
    /\ UNCHANGED <<tunnel_pools, mgr_lock, got>> /\ MgrFrame

MgrNext ==
    \/ \E t \in Threads, tunnel_name \in PoolTunnels, pool_size \in PoolSizes :
          GetPoolCall(t, tunnel_name, pool_size)
    \/ \E t \in Threads : GpTest(t)
    \/ \E t \in Threads : GpCreate(t)
    \/ \E t \in Threads : GpReturn(t)
    \/ \E t \in Threads : GetAllStatusCall(t)
    \/ \E t \in Threads : GaNext(t)
    \/ \E t \in Threads : GaReturn(t)
    \/ \E t \in Threads, pool_ref \in 1..Cardinality(PoolTunnels) :
          GetPoolStatusCall(t, pool_ref)
    \/ \E t \in Threads : PsEnter(t)
    \/ \E t \in Threads : PsReturn(t)

SpecMgr == MgrInit /\ [][MgrNext]_vars

\* the pools constructed for tunnel name n
PoolsMadeFor(h, n) == {r \in 1..Len(h) : h[r].tunnel_name = n}

\* C13: under any interleaving of get_pool calls, at most one ConnectionPool is
\* constructed per tunnel name, every call for a name returns the same pool,
\* and a registered pool is neither replaced nor resized by a later call
C13_GetPoolAtomic ==
    [][/\ \A n \in PoolTunnels : Cardinality(PoolsMadeFor(heap', n)) <= 1
       /\ \A g, h \in got' : g[1] = h[1] => g[2] = h[2]
       /\ \A n \in DOMAIN tunnel_pools :
             /\ n \in DOMAIN tunnel_pools'
             /\ tunnel_pools'[n] = tunnel_pools[n]
             /\ heap'[tunnel_pools[n]].pool_size = heap[tunnel_pools[n]].pool_size]_vars

\* a get_pool call is about to return, for a name another call got already,
\* a pool of another size than the one it asked for, and two names are
\* registered
C13_Witness ==
    \E t \in Threads :
       /\ callers[t].pc = "gp_return"
       /\ \E g \in got : g[1] = callers[t].tunnel_name
       /\ heap[tunnel_pools[callers[t].tunnel_name]].pool_size # callers[t].pool_size
       /\ Cardinality(DOMAIN tunnel_pools) = 2

\* a thread is in code of a ConnectionPool, or waits to enter it
InPool(t) == callers[t].pc \in {"ps_enter", "ps_body"}

\* a thread is in code of the ConnectionPoolManager
InManager(t) == callers[t].pc \in {"gp_test", "gp_create", "gp_return", "ga_loop"}

\* the pool locks thread t holds
PoolLocksHeld(t) == {r \in 1..Len(heap) : heap[r].lock.owner = t}

\* C15: no thread holds the manager's lock while it executes, or waits to
\* enter, a method of a ConnectionPool, and no thread holds a pool's lock
\* while it is in the manager's code
C15_LockDiscipline ==
    \A t \in Threads :
       /\ mgr_lock.owner = t => ~InPool(t)
       /\ PoolLocksHeld(t) # {} => ~InManager(t)

(* ------------- SpecGlobal: threads sharing _pool_manager --------------- *)

(* A thread runs get_pool_manager, alone or from setup_connection_pooling,
   statement by statement; no lock is taken. A ConnectionPoolManager object is
   an element of managers, its reference the index; of the object the names
   registered with get_pool are kept, each with the pool_size of its pool.
   pc: idle, gm_test at the test of the global, gm_create at the assignment,
   gm_return at the return, sp_get_pool at manager.get_pool(...). *)

\* ConnectionPoolManager()
ConnectionPoolManager == [tunnel_pools |-> EmptyDict]

\* the module after import: _pool_manager = None
GlobalInit ==
    /\ PoolIdle
    /\ HealthIdle
    /\ ConcIdle
    /\ DogIdle
    /\ MgrIdle

\* what a step of the module's functions leaves alone
GlobalFrame == UNCHANGED <<poolVars, healthVars, concVars, dogVars, tunnel_pools,
                           mgr_lock, heap, got>>

\* get_pool_manager(), called by an idle thread
GetPoolManagerCall(t) ==
    /\ callers[t].pc = "idle"
    /\ callers' = [callers EXCEPT ![t] = Call(@, "gm_test", "idle")]
    /\ UNCHANGED <<pool_manager, managers, received>> /\ GlobalFrame

\* setup_connection_pooling(tunnel_name, pool_size), called by an idle thread:
\* manager = get_pool_manager()
SetupConnectionPoolingCall(t, tunnel_name, pool_size) ==
    /\ callers[t].pc = "idle"
    /\ callers' = [callers EXCEPT
                     ![t] = Call(Call([@ EXCEPT !.tunnel_name = tunnel_name,
                                                !.pool_size = pool_size],
                                      "sp_get_pool", "idle"),
                                 "gm_test", "sp_get_pool")]
    /\ UNCHANGED <<pool_manager, managers, received>> /\ GlobalFrame

\* if _pool_manager is None
SeesNone(manager) == manager = None

GmTest(t) ==
    /\ callers[t].pc = "gm_test"
    /\ callers' = [callers EXCEPT
                     ![t].pc = IF SeesNone(pool_manager)
                               THEN "gm_create" ELSE "gm_return"]
    /\ UNCHANGED <<pool_manager, managers, received>> /\ GlobalFrame

\* _pool_manager = ConnectionPoolManager()
GmCreate(t) ==
    /\ callers[t].pc = "gm_create"
    /\ managers' = Append(managers, ConnectionPoolManager)
    /\ pool_manager' = Len(managers) + 1
    /\ callers' = [callers EXCEPT ![t].pc = "gm_return"]
    /\ UNCHANGED received /\ GlobalFrame

\* return _pool_manager: the global as it is now
GmReturn(t) ==
    /\ callers[t].pc = "gm_return"
    /\ received' = received \cup {pool_manager}
    /\ callers' = [callers EXCEPT ![t] = Return([@ EXCEPT !.manager = pool_manager])]
    /\ UNCHANGED <<pool_manager, managers>> /\ GlobalFrame

\* pool = manager.get_pool(tunnel_name, pool_size), atomic under the
\* manager's lock; then setup_connection_pooling returns
SpGetPool(t) ==
    /\ callers[t].pc = "sp_get_pool"
    /\ LET m == callers[t].manager
           tunnel_name == callers[t].tunnel_name
       IN  managers' =
             IF tunnel_name \in DOMAIN managers[m].tunnel_pools THEN managers
             ELSE [managers EXCEPT ![m].tunnel_pools =
                                      Put(@, tunnel_name, callers[t].pool_size)]
    /\ callers' = [callers EXCEPT
                     ![t] = Return([@ EXCEPT !.tunnel_name = "", !.pool_size = 0])]
    /\ UNCHANGED <<pool_manager, received>> /\ GlobalFrame

GlobalNext ==
    \/ \E t \in Threads : GetPoolManagerCall(t)
    \/ \E t \in Threads, tunnel_name \in PoolTunnels, pool_size \in PoolSizes :
          SetupConnectionPoolingCall(t, tunnel_name, pool_size)
    \/ \E t \in Threads : GmTest(t)
    \/ \E t \in Threads : GmCreate(t)
    \/ \E t \in Threads : GmReturn(t)
    \/ \E t \in Threads : SpGetPool(t)

SpecGlobal == GlobalInit /\ [][GlobalNext]_vars

\* C29: whatever the interleaving of get_pool_manager and
\* setup_connection_pooling calls, at most one ConnectionPoolManager is
\* constructed, every call receives that one, and a name registered through
\* one call is registered in the manager every other call received
C29_ManagerIsSingleton ==
    /\ Len(managers) <= 1
    /\ Cardinality(received) <= 1
    /\ \A m1, m2 \in received :
          DOMAIN managers[m1].tunnel_pools = DOMAIN managers[m2].tunnel_pools

(* ---------------- SpecDog: the TunnelWatchdog coroutine ---------------- *)

(* run() is one coroutine: its steps are the stretches of code between two
   awaits, cut further at every call of recover_unhealthy_tunnel's and
   recover_unhealthy_ports' collaborators, which is a step for the call and a
   step for its return. stop() runs while run() is suspended in a sleep.
   dog.pc: start, loop (the while test), check, pre_recovery (sleep(2)),
   rt_* in the tunnel loop of recovery_cycle, rp_loop and pf_* in its port loop,
   sleep (sleep(check_interval)), backoff (sleep(5)), done, failed.
   dog.rt: the unhealthy tunnels left, dog.rp: the tunnels whose ports are left,
   dog.ports: the unhealthy ports left of the tunnel Head(dog.rp).
   dog.stopped: stop() was called. config is what the configuration reads of
   check_health and recovery_cycle give; pc hung: inside a collaborator's call
   that does not return.
   self.tunnel_managers is a cache of collaborators and is left out. *)

\* config_manager.get_all_tunnels() when the watchdog starts: the tunnels, all
\* is_configured(), and their forwarded_ports: one tunnel forwards two ports,
\* the other none
Config == << [name |-> "tunA", forwarded_ports |-> <<80, 443>>,
              is_configured |-> TRUE],
             [name |-> "tunB", forwarded_ports |-> <<>>,
              is_configured |-> TRUE] >>

\* [t for t in tunnels if t.is_configured()]
RECURSIVE ConfiguredTunnels(_)
ConfiguredTunnels(tunnels) ==
    IF tunnels = <<>> THEN <<>>
    ELSE (IF Head(tunnels).is_configured THEN <<Head(tunnels)>> ELSE <<>>)
         \o ConfiguredTunnels(Tail(tunnels))

\* HealthMonitor(check_interval, failure_threshold=2)
WatchdogThreshold == 2

\* what a call of a collaborator gives: (True, msg), (False, msg), an exception
Outcomes == {"ok", "fail", "raise"}

\* the pcs at which run() is suspended in asyncio.sleep
AwaitPoints == {"pre_recovery", "rt_settle", "rt_between", "pf_settle",
                "sleep", "backoff"}

\* all_ports of check_health: the forwarded_ports of the tunnels, one list
\* after the other
RECURSIVE AllPorts(_)
AllPorts(tunnels) ==
    IF tunnels = <<>> THEN <<>>
    ELSE Head(tunnels).forwarded_ports \o AllPorts(Tail(tunnels))

\* what the probes of one check_health may give, per tunnel and per port probed
DogTunnelProbes(tunnels) ==
    {[i \in 1..Len(tunnels) |-> [name |-> tunnels[i].name,
                                 interface_up |-> b[i][1],
                                 tunnel_active |-> b[i][2]]] :
        b \in [1..Len(tunnels) -> BOOLEAN \X BOOLEAN]}

DogPortProbes(all_ports) ==
    {[i \in 1..Len(all_ports) |-> [port |-> all_ports[i], listening |-> b[i]]] :
        b \in [1..Len(all_ports) -> BOOLEAN]}

\* the first only of the tunnels of a set
InConfigOrder_firstOnly(tunnels, names) ==
    IF \E i \in 1..Len(tunnels) : tunnels[i].name \in names
    THEN <<tunnels[CHOOSE i \in 1..Len(tunnels) :
                     /\ tunnels[i].name \in names
                     /\ \A j \in 1..(i - 1) : tunnels[j].name \notin names].name>>
    ELSE <<>>

\* for tunnel_name in unhealthy_tunnels, with the tunnel_config of that name:
\* the tunnels of a set that the configuration names, in the order of the
\* configuration, which is the insertion order of tunnel_health
RECURSIVE InConfigOrder(_, _)
InConfigOrder(tunnels, names) ==
    IF tunnels = <<>> THEN <<>>
    ELSE (IF Head(tunnels).name \in names THEN <<Head(tunnels).name>> ELSE <<>>)
         \o InConfigOrder(Tail(tunnels), names)

\* unhealthy_ports of recover_unhealthy_ports: the forwarded ports with a
\* record that is not healthy
RECURSIVE UnhealthyPorts(_, _)
UnhealthyPorts(forwarded_ports, health) ==
    IF forwarded_ports = <<>> THEN <<>>
    ELSE LET port == Head(forwarded_ports)
         IN  (IF port \in DOMAIN health /\ ~health[port].healthy
              THEN <<port>> ELSE <<>>)
             \o UnhealthyPorts(Tail(forwarded_ports), health)

\* a call that never completes
Completed_never(calls, c) == calls

\* a collaborator's call is synchronous: when the next statement runs it has
\* returned
Completed(calls, c) == calls \ {c}

\* full_setup only after a delete that succeeded
AttemptsCreate_onSuccess(outcome) == outcome = "ok"

\* recover_unhealthy_tunnel: a delete that reports failure is logged and the
\* tunnel is recreated all the same; an exception leaves the try block
AttemptsCreate(outcome) == outcome # "raise"

\* a record cleared whatever create_forward gave
ClearsRecord_always(outcome) == TRUE

\* recover_unhealthy_ports: if success: ... clear_port_health(port)
ClearsRecord(outcome) == outcome = "ok"

\* an exception that abandons the tunnel's remaining ports
AfterPortException_abort(ports) == <<>>

\* recover_unhealthy_ports: the except of the loop body, then the next port
AfterPortException(ports) == Tail(ports)

\* the log entry of a call
Entry(action, target) == [action |-> action, target |-> target]

\* the first probe of port in the list, given the port is in it
RECURSIVE FirstProbe(_, _)
FirstProbe(ports, port) ==
    IF Head(ports).port = port THEN Head(ports) ELSE FirstProbe(Tail(ports), port)

\* after_clear once the ports were probed: for a port cleared by a recovery
\* and not probed since, what its first probe gave and the failure_count stored
\* for it then
ProbedAfterClear(ac, health, ports) ==
    [p \in DOMAIN ac |->
        IF ac[p].state = "cleared" /\ \E i \in 1..Len(ports) : ports[i].port = p
        THEN LET probe == FirstProbe(ports, p)
             IN  [state |-> "probed", stale |-> ac[p].stale,
                  ok |-> probe.listening,
                  count |-> check_all_port_health(health, <<probe>>)[p].failure_count]
        ELSE ac[p]]

\* after_clear without the ports probed since they were cleared
Forget(ac) ==
    [p \in {q \in DOMAIN ac : ac[q].state = "cleared"} |-> ac[p]]

\* the watchdog constructed, over the configuration tunnels
DogStart(tunnels) ==
    /\ PoolIdle
    /\ ConcIdle
    /\ MgrIdle
    /\ failure_threshold = WatchdogThreshold
    /\ tunnel_health = EmptyDict
    /\ port_health = EmptyDict
    /\ recovery_needed = NoResult
    /\ tunnel_obs = EmptyDict
    /\ port_obs = EmptyDict
    /\ dog = NewDog
    /\ inflight = {}
    /\ log = <<>>
    /\ after_clear = EmptyDict
    /\ config = tunnels

DogInit == DogStart(Config)

\* what a step of the watchdog leaves alone
DogFrame == UNCHANGED <<poolVars, concVars, mgrVars, failure_threshold,
                        recovery_needed, tunnel_obs, port_obs, config>>

\* run() up to the loop: initialize(), whose configuration read may raise,
\* which ends run(); then self.running = True
RunStart(config_ok) ==
    /\ dog.pc = "start"
    /\ dog' = IF config_ok THEN [dog EXCEPT !.pc = "loop", !.running = TRUE]
              ELSE [dog EXCEPT !.pc = "failed"]
    /\ UNCHANGED <<tunnel_health, port_health, inflight, log, after_clear>>
    /\ DogFrame

\* stop(), run by the event loop while run() sleeps
Stop ==
    /\ dog.pc \in AwaitPoints
    /\ dog.running
    /\ dog' = [dog EXCEPT !.running = FALSE, !.stopped = TRUE]
    /\ UNCHANGED <<tunnel_health, port_health, inflight, log, after_clear>>
    /\ DogFrame

\* while self.running
LoopTest ==
    /\ dog.pc = "loop"
    /\ dog' = [dog EXCEPT !.pc = IF dog.running THEN "check" ELSE "done"]
    /\ UNCHANGED <<tunnel_health, port_health, inflight, log, after_clear>>
    /\ DogFrame

\* check_health() raises at its configuration read: except Exception
CheckHealthRaises ==
    /\ dog.pc = "check"
    /\ dog' = [dog EXCEPT !.pc = "backoff"]
    /\ UNCHANGED <<tunnel_health, port_health, inflight, log, after_clear>>
    /\ DogFrame

\* no failure_count above cap
FailuresUpTo(health, cap) ==
    \A k \in DOMAIN health : health[k].failure_count <= cap

\* check_health(), then get_recovery_needed(): on to the recovery, or to the
\* sleep that ends the iteration; cap bounds the failure counts
CheckHealth(cap, tunnels, ports) ==
    /\ dog.pc = "check"
    /\ LET th == check_all_tunnel_health(tunnel_health, tunnels)
           ph == check_all_port_health(port_health, ports)
           need == get_recovery_needed(th, ph, failure_threshold)
       IN  /\ FailuresUpTo(th, cap)
           /\ FailuresUpTo(ph, cap)
           /\ tunnel_health' = th
           /\ port_health' = ph
           /\ dog' = [dog EXCEPT !.pc = IF need.tunnels # {} \/ need.ports # {}
                                        THEN "pre_recovery" ELSE "sleep"]
    /\ after_clear' = ProbedAfterClear(after_clear, port_health, ports)
    /\ UNCHANGED <<inflight, log>>
    /\ DogFrame

\* recovery_cycle() after sleep(2): the configuration read, which may raise,
\* and get_recovery_needed(); dog.rt are the tunnels needing recovery that the
\* configuration read names, configured or not, and dog.rp the tunnels read
RecoveryCycleStart(config_ok) ==
    /\ dog.pc = "pre_recovery"
    /\ dog' = IF config_ok
              THEN [dog EXCEPT
                      !.pc = "rt_loop",
                      !.rt = InConfigOrder(config,
                                 get_recovery_needed(tunnel_health, port_health,
                                                     failure_threshold).tunnels),
                      !.rp = config]
              ELSE [dog EXCEPT !.pc = "backoff"]
    /\ after_clear' = Forget(after_clear)
    /\ UNCHANGED <<tunnel_health, port_health, inflight, log>>
    /\ DogFrame

\* recover_unhealthy_tunnel: tunnel_mgr.delete_tunnel() is called
TunnelDeleteCall ==
    /\ dog.pc = "rt_loop"
    /\ dog.rt # <<>>
    /\ inflight' = inflight \cup {<<"delete", Head(dog.rt)>>}
    /\ log' = Append(log, Entry("delete", Head(dog.rt)))
    /\ dog' = [dog EXCEPT !.pc = "rt_delete", !.result = "none"]
    /\ UNCHANGED <<tunnel_health, port_health, after_clear>>
    /\ DogFrame

\* delete_tunnel() returns or raises: on to sleep(recovery_delay), or out of
\* recover_unhealthy_tunnel to sleep(2)
TunnelDeleteReturn(outcome) ==
    /\ dog.pc = "rt_delete"
    /\ inflight' = Completed(inflight, <<"delete", Head(dog.rt)>>)
    /\ dog' = [dog EXCEPT !.pc = IF AttemptsCreate(outcome)
                                 THEN "rt_settle" ELSE "rt_between",
                          !.result = outcome]
    /\ UNCHANGED <<tunnel_health, port_health, log, after_clear>>
    /\ DogFrame

\* after sleep(recovery_delay): tunnel_mgr.full_setup() is called
TunnelCreateCall ==
    /\ dog.pc = "rt_settle"
    /\ inflight' = inflight \cup {<<"full_setup", Head(dog.rt)>>}
    /\ log' = Append(log, Entry("full_setup", Head(dog.rt)))
    /\ dog' = [dog EXCEPT !.pc = "rt_create"]
    /\ UNCHANGED <<tunnel_health, port_health, after_clear>>
    /\ DogFrame

\* full_setup() returns or raises: recover_unhealthy_tunnel returns
TunnelCreateReturn(outcome) ==
    /\ dog.pc = "rt_create"
    /\ inflight' = Completed(inflight, <<"full_setup", Head(dog.rt)>>)
    /\ dog' = [dog EXCEPT !.pc = "rt_between", !.result = outcome]
    /\ UNCHANGED <<tunnel_health, port_health, log, after_clear>>
    /\ DogFrame

\* after sleep(2): the next unhealthy tunnel
TunnelNext ==
    /\ dog.pc = "rt_between"
    /\ dog' = [dog EXCEPT !.pc = "rt_loop", !.rt = Tail(@), !.result = "none"]
    /\ UNCHANGED <<tunnel_health, port_health, inflight, log, after_clear>>
    /\ DogFrame

\* the tunnel loop is over: for tunnel in tunnels
PortsStart ==
    /\ dog.pc = "rt_loop"
    /\ dog.rt = <<>>
    /\ dog' = [dog EXCEPT !.pc = "rp_loop"]
    /\ UNCHANGED <<tunnel_health, port_health, inflight, log, after_clear>>
    /\ DogFrame

\* if tunnel.is_configured(): recover_unhealthy_ports(tunnel) is called:
\* nothing to do without unhealthy ports; else get_forward_manager, which may
\* give a manager, None or an exception, the last two ending the call
RecoverPortsCall(manager) ==
    /\ dog.pc = "rp_loop"
    /\ dog.rp # <<>>
    /\ LET tunnel_config == Head(dog.rp)
           unhealthy_ports == IF tunnel_config.is_configured
                              THEN UnhealthyPorts(tunnel_config.forwarded_ports,
                                                  port_health)
                              ELSE <<>>
       IN  IF unhealthy_ports = <<>>
           THEN /\ dog' = [dog EXCEPT !.rp = Tail(@), !.result = "none"]
                /\ log' = log
           ELSE /\ log' = IF manager = "ok" THEN log
                          ELSE Append(log, Entry("no_forward_manager",
                                                 tunnel_config.name))
                /\ dog' = IF manager = "ok"
                          THEN [dog EXCEPT !.pc = "pf_loop",
                                           !.ports = unhealthy_ports,
                                           !.result = "none"]
                          ELSE [dog EXCEPT !.rp = Tail(@), !.result = "none"]
    /\ UNCHANGED <<tunnel_health, port_health, inflight, after_clear>>
    /\ DogFrame

\* for port in unhealthy_ports: forward_manager.remove_forward(port) is called
ForwardRemoveCall ==
    /\ dog.pc = "pf_loop"
    /\ dog.ports # <<>>
    /\ inflight' = inflight \cup {<<"remove_forward", Head(dog.ports)>>}
    /\ log' = Append(log, Entry("remove_forward", Head(dog.ports)))
    /\ dog' = [dog EXCEPT !.pc = "pf_remove", !.result = "none"]
    /\ UNCHANGED <<tunnel_health, port_health, after_clear>>
    /\ DogFrame

\* remove_forward() returns, then sleep(1); or raises, then the next port
ForwardRemoveReturn(outcome) ==
    /\ dog.pc = "pf_remove"
    /\ inflight' = Completed(inflight, <<"remove_forward", Head(dog.ports)>>)
    /\ dog' = IF outcome = "raise"
              THEN [dog EXCEPT !.pc = "pf_loop",
                               !.ports = AfterPortException(@),
                               !.result = outcome]
              ELSE [dog EXCEPT !.pc = "pf_settle", !.result = outcome]
    /\ UNCHANGED <<tunnel_health, port_health, log, after_clear>>
    /\ DogFrame

\* after sleep(1): forward_manager.create_forward(port) is called
ForwardCreateCall ==
    /\ dog.pc = "pf_settle"
    /\ inflight' = inflight \cup {<<"create_forward", Head(dog.ports)>>}
    /\ log' = Append(log, Entry("create_forward", Head(dog.ports)))
    /\ dog' = [dog EXCEPT !.pc = "pf_create", !.result = "none"]
    /\ UNCHANGED <<tunnel_health, port_health, after_clear>>
    /\ DogFrame

\* create_forward() returns or raises; on success clear_port_health(port);
\* then the next port
ForwardCreateReturn(outcome) ==
    /\ dog.pc = "pf_create"
    /\ LET port == Head(dog.ports)
       IN  /\ inflight' = Completed(inflight, <<"create_forward", port>>)
           /\ IF ClearsRecord(outcome)
              THEN /\ port_health' = clear_port_health(port_health, port)
                   /\ after_clear' =
                        Put(after_clear, port,
                            [state |-> "cleared",
                             stale |-> port_health[port].failure_count])
              ELSE UNCHANGED <<port_health, after_clear>>
    /\ dog' = [dog EXCEPT !.pc = "pf_loop", !.ports = Tail(@), !.result = outcome]
    /\ UNCHANGED <<tunnel_health, log>>
    /\ DogFrame

\* the tunnel's ports are over: recover_unhealthy_ports returns
PortsNext ==
    /\ dog.pc = "pf_loop"
    /\ dog.ports = <<>>
    /\ dog' = [dog EXCEPT !.pc = "rp_loop", !.rp = Tail(@), !.result = "none"]
    /\ UNCHANGED <<tunnel_health, port_health, inflight, log, after_clear>>
    /\ DogFrame

\* the port loop is over: recovery_cycle returns, on to sleep(check_interval)
CycleEnd ==
    /\ dog.pc = "rp_loop"
    /\ dog.rp = <<>>
    /\ dog' = [dog EXCEPT !.pc = "sleep"]
    /\ UNCHANGED <<tunnel_health, port_health, inflight, log, after_clear>>
    /\ DogFrame

\* sleep(check_interval) is over: the next iteration
Sleep ==
    /\ dog.pc = "sleep"
    /\ dog' = [dog EXCEPT !.pc = "loop"]
    /\ log' = <<>>
    /\ after_clear' = Forget(after_clear)
    /\ UNCHANGED <<tunnel_health, port_health, inflight>>
    /\ DogFrame

\* except Exception: sleep(5) is over: the next iteration
Backoff ==
    /\ dog.pc = "backoff"
    /\ dog' = [dog EXCEPT !.pc = "loop"]
    /\ log' = <<>>
    /\ after_clear' = Forget(after_clear)
    /\ UNCHANGED <<tunnel_health, port_health, inflight>>
    /\ DogFrame

\* the steps of run(), with the failure counts bounded by cap
RunStepUpTo(cap) ==
    \/ \E config_ok \in BOOLEAN : RunStart(config_ok)
    \/ LoopTest
    \/ CheckHealthRaises
    \/ /\ dog.pc = "check"
       /\ \E tunnels \in DogTunnelProbes(ConfiguredTunnels(config)),
             ports \in DogPortProbes(AllPorts(ConfiguredTunnels(config))) :
             CheckHealth(cap, tunnels, ports)
    \/ \E config_ok \in BOOLEAN : RecoveryCycleStart(config_ok)
    \/ TunnelDeleteCall
    \/ \E outcome \in Outcomes : TunnelDeleteReturn(outcome)
    \/ TunnelCreateCall
    \/ \E outcome \in Outcomes : TunnelCreateReturn(outcome)
    \/ TunnelNext
    \/ PortsStart
    \/ \E manager \in {"ok", "none", "raise"} : RecoverPortsCall(manager)
    \/ ForwardRemoveCall
    \/ \E outcome \in Outcomes : ForwardRemoveReturn(outcome)
    \/ ForwardCreateCall
    \/ \E outcome \in Outcomes : ForwardCreateReturn(outcome)
    \/ PortsNext
    \/ CycleEnd
    \/ Sleep
    \/ Backoff

\* the steps of run()
RunStep == RunStepUpTo(MaxFailures)

DogNext == RunStep \/ Stop

SpecDog == DogInit /\ [][DogNext]_vars

\* the event loop resumes run() when a sleep is over, and the collaborators'
\* calls return
SpecDogLive == SpecDog /\ WF_vars(RunStep)

\* a configuration of two tunnels and one port
RetryConfig == << [name |-> "tunA", forwarded_ports |-> <<80>>,
                   is_configured |-> TRUE],
                  [name |-> "tunB", forwarded_ports |-> <<>>,
                   is_configured |-> TRUE] >>

RetryNext == RunStepUpTo(MaxStreak) \/ Stop

\* run() followed until a failure_count is past the threshold
SpecRetry == DogStart(RetryConfig) /\ [][RetryNext]_vars

\* a configuration of two tunnels that forward the same port
SharedPortConfig == << [name |-> "tunA", forwarded_ports |-> <<80>>,
                        is_configured |-> TRUE],
                       [name |-> "tunB", forwarded_ports |-> <<80>>,
                        is_configured |-> TRUE] >>

\* run() over two tunnels that share a port
SpecShared == DogStart(SharedPortConfig) /\ [][DogNext]_vars

\* stop() called once run() was started as a task and has not run yet: its
\* self.running = False comes before the self.running = True of run()
StopBeforeLoop ==
    /\ dog.pc = "start"
    /\ ~dog.stopped
    /\ dog' = [dog EXCEPT !.running = FALSE, !.stopped = TRUE]
    /\ UNCHANGED <<tunnel_health, port_health, inflight, log, after_clear>>
    /\ DogFrame

\* run() and a stop() at any point where run() does not hold the event loop
StopNext == DogNext \/ StopBeforeLoop

SpecStop == DogInit /\ [][StopNext]_vars /\ WF_vars(RunStep)

\* the pcs at which run() is inside a call of a collaborator:
\* delete_tunnel(), full_setup(), remove_forward(), create_forward()
CallPoints == {"rt_delete", "rt_create", "pf_remove", "pf_create"}

\* the collaborator's call never returns on its own: the calls are plain
\* synchronous calls, neither awaited nor wrapped in a timeout, so run() stays
\* inside the call
CallHangs ==
    /\ dog.pc \in CallPoints
    /\ dog' = [dog EXCEPT !.pc = "hung"]
    /\ UNCHANGED <<tunnel_health, port_health, inflight, log, after_clear>>
    /\ DogFrame

\* run() with collaborators whose calls may hang
HangNext == DogNext \/ CallHangs

SpecHang == DogInit /\ [][HangNext]_vars /\ WF_vars(RunStep)

\* a sequence without its i-th element
RemoveAt(seq, i) == SubSeq(seq, 1, i - 1) \o SubSeq(seq, i + 1, Len(seq))

\* the configurations one removal away from tunnels: a tunnel is taken out, a
\* tunnel is no longer is_configured(), or a port of a tunnel is taken out
Removals(tunnels) ==
    {RemoveAt(tunnels, i) : i \in 1..Len(tunnels)}
    \cup {[tunnels EXCEPT ![i].is_configured = FALSE] :
             i \in {j \in 1..Len(tunnels) : tunnels[j].is_configured}}
    \cup UNION {{[tunnels EXCEPT ![i].forwarded_ports = RemoveAt(@, k)] :
                    k \in 1..Len(tunnels[i].forwarded_ports)} :
                 i \in 1..Len(tunnels)}

\* the configuration is edited while run() sleeps between two iterations;
\* run() reads it anew at check_health and at recovery_cycle
ConfigChange(tunnels) ==
    /\ dog.pc = "sleep"
    /\ tunnels \in Removals(config)
    /\ config' = tunnels
    /\ UNCHANGED <<dog, tunnel_health, port_health, inflight, log, after_clear>>
    /\ UNCHANGED <<poolVars, concVars, mgrVars, failure_threshold,
                   recovery_needed, tunnel_obs, port_obs>>

\* run() over a configuration that shrinks
CfgNext == DogNext \/ \E tunnels \in Removals(config) : ConfigChange(tunnels)

SpecCfg == DogInit /\ [][CfgNext]_vars

(* --------------------- TunnelWatchdog: the properties ------------------ *)

\* C16: the watchdog deletes a port's health record only at the return of a
\* create_forward for that port that reported success, and a create_forward
\* that reports failure or raises leaves the health records as they were
C16_ClearOnlyAfterSuccess ==
    [][\A port \in Ports :
         /\ (port \in DOMAIN port_health /\ port \notin DOMAIN port_health') =>
               (<<"create_forward", port>> \in inflight /\ dog'.result = "ok")
         /\ (/\ <<"create_forward", port>> \in inflight
             /\ <<"create_forward", port>> \notin inflight'
             /\ dog'.result # "ok") => port_health' = port_health]_vars

\* a create_forward just returned success and its port's record is gone,
\* after a create_forward of the same cycle that did not succeed and left its
\* port's unhealthy record
C16_Witness ==
    /\ dog.pc = "pf_loop"
    /\ dog.result = "ok"
    /\ log # <<>>
    /\ log[Len(log)].action = "create_forward"
    /\ log[Len(log)].target \notin DOMAIN port_health
    /\ \E i \in 1..(Len(log) - 1) :
          /\ log[i].action = "create_forward"
          /\ log[i].target \in DOMAIN port_health
          /\ ~port_health[log[i].target].healthy

\* C17: the first probe of a port after a successful recovery cleared its
\* record stores failure_count 0 if the probe succeeds and 1 if it fails
C17_FreshStreakAfterRecovery ==
    \A port \in DOMAIN after_clear :
       after_clear[port].state = "probed" =>
          after_clear[port].count = IF after_clear[port].ok THEN 0 ELSE 1

\* a port recovered at a failure_count that had reached the threshold was
\* probed again and failed
C17_Witness ==
    \E port \in DOMAIN after_clear :
       /\ after_clear[port].state = "probed"
       /\ ~after_clear[port].ok
       /\ after_clear[port].stale >= WatchdogThreshold

\* the actions on tunnels and the actions on ports
TunnelActions == {"delete", "full_setup"}
PortActions == {"remove_forward", "create_forward"}

\* the pcs of run() outside recovery_cycle
OutsideRecovery == {"start", "loop", "check", "pre_recovery", "sleep",
                    "backoff", "done", "failed"}

\* the actions on one tunnel are next to each other in the log
TunnelsOneByOne(l) ==
    \A i, j, k \in 1..Len(l) :
       (/\ i < j /\ j < k
        /\ l[i].action \in TunnelActions /\ l[k].action \in TunnelActions
        /\ l[i].target = l[k].target) =>
            (l[j].action \in TunnelActions /\ l[j].target = l[i].target)

\* C18: at most one call of a recovery action is in progress, it is the last
\* one started, the actions on one tunnel are over before those on the next
\* start, and none is in progress outside recovery_cycle, during check_health
\* in particular
C18_SerialRecovery ==
    /\ Cardinality(inflight) <= 1
    /\ \A c \in inflight :
          /\ log # <<>>
          /\ c[1] = log[Len(log)].action
          /\ c[2] = log[Len(log)].target
    /\ TunnelsOneByOne(log)
    /\ dog.pc \in OutsideRecovery => inflight = {}

\* the second tunnel's full_setup is in progress after the first tunnel's
\* delete and full_setup
C18_Witness ==
    /\ inflight = {<<"full_setup", Config[2].name>>}
    /\ Len(log) = 4
    /\ log[1].action = "delete" /\ log[1].target = Config[1].name
    /\ log[2].action = "full_setup" /\ log[2].target = Config[1].name

\* every action on a tunnel precedes every action on a port
TunnelsBeforePorts(l) ==
    \A i, j \in 1..Len(l) :
       (i < j /\ l[i].action \notin TunnelActions) => l[j].action \notin TunnelActions

\* action first of a target comes right before every action second of it
RightBefore(l, first, second) ==
    \A j \in 1..Len(l) :
       l[j].action = second =>
          /\ j > 1
          /\ l[j - 1].action = first
          /\ l[j - 1].target = l[j].target

\* C19: in a recovery cycle the actions on tunnels precede the actions on
\* ports, a tunnel's delete comes right before its full_setup, a port's
\* remove_forward right before its create_forward, and after a delete that
\* reported failure the next thing run() does is to call full_setup for the
\* same tunnel
C19_RecoveryOrder ==
    [][/\ TunnelsBeforePorts(log')
       /\ RightBefore(log', "delete", "full_setup")
       /\ RightBefore(log', "remove_forward", "create_forward")
       /\ (dog.pc = "rt_delete" /\ dog'.result = "fail") => dog'.pc = "rt_settle"
       /\ (dog.pc = "rt_settle" /\ dog'.pc # "rt_settle") =>
             /\ dog'.pc = "rt_create"
             /\ log' = Append(log, Entry("full_setup", Head(dog.rt)))]_vars

\* a port's create_forward is in progress, after its remove_forward and after
\* the delete and full_setup of both tunnels
C19_Witness ==
    /\ dog.pc = "pf_create"
    /\ Len(log) >= 6
    /\ \A i \in 1..4 : log[i].action \in TunnelActions
    /\ log[1].target # log[3].target
    /\ log[Len(log)].action = "create_forward"

\* the tunnels whose forward manager could not be obtained in this cycle
NoForwardManager(l) ==
    {l[i].target : i \in {j \in 1..Len(l) : l[j].action = "no_forward_manager"}}

Attempted(l, action, target) ==
    \E i \in 1..Len(l) : l[i].action = action /\ l[i].target = target

\* at the end of a recovery cycle: every tunnel that needed recovery had its
\* delete called, and every port left unhealthy of a tunnel whose forward
\* manager was obtained had its remove_forward called
AllAttempted ==
    /\ \A name \in get_recovery_needed(tunnel_health, port_health,
                                       failure_threshold).tunnels :
          Attempted(log, "delete", name)
    /\ \A i \in 1..Len(Config) :
          Config[i].name \notin NoForwardManager(log) =>
             \A k \in 1..Len(Config[i].forwarded_ports) :
                LET port == Config[i].forwarded_ports[k]
                IN  (port \in DOMAIN port_health /\ ~port_health[port].healthy)
                       => Attempted(log, "remove_forward", port)

\* C20: after an exception of a configuration read or of a recovery action,
\* run() reaches the health check of a further iteration unless running was
\* set to false; run() ends only at the while test with running false; and a
\* recovery cycle that ends has attempted every tunnel and port it had to,
\* whatever was raised on the way
C20_LoopSurvivesExceptions ==
    /\ []((dog.result = "raise" \/ dog.pc = "backoff") =>
             <>(dog.pc = "check" \/ ~dog.running))
    /\ [][/\ dog'.pc = "done" => (dog.pc = "loop" /\ ~dog.running)
          /\ dog'.pc = "failed" => dog.pc = "start"
          /\ (dog.pc = "rp_loop" /\ dog'.pc = "sleep") => AllAttempted]_vars

\* a recovery cycle is over in which the first tunnel's delete raised and the
\* second tunnel was attempted, and a port's remove_forward raised and the
\* next port was attempted
C20_Witness ==
    /\ dog.pc = "sleep"
    /\ dog.running
    /\ \E i \in 1..(Len(log) - 1) :
          /\ log[i].action = "delete"
          /\ log[i + 1].action = "delete"
    /\ \E i \in 1..(Len(log) - 1) :
          /\ log[i].action = "remove_forward"
          /\ log[i + 1].action = "remove_forward"

\* C21: once stop() was called, run() eventually returns, wherever run() was
\* when stop() was called, before the first iteration of its loop included
C21_StopEndsRun ==
    [](dog.stopped => <>(dog.pc \in {"done", "failed"}))

\* C22: a call of a collaborator that does not return on its own is ended, and
\* run() reaches the health check of a further iteration, or its end if it was
\* stopped
C22_HangIsCutOff ==
    [](dog.pc = "hung" => <>(inflight = {} /\ dog.pc \in {"check", "done"}))

\* the tunnels and the ports the configuration names, tunnels that are not
\* is_configured() and their ports left out
ManagedTunnels(tunnels) ==
    {tunnels[i].name : i \in {j \in 1..Len(tunnels) : tunnels[j].is_configured}}

ManagedPorts(tunnels) ==
    {AllPorts(ConfiguredTunnels(tunnels))[i] :
        i \in 1..Len(AllPorts(ConfiguredTunnels(tunnels)))}

\* run() is past the health checks of an iteration that found something to
\* recover
InRecovery == dog.pc \notin OutsideRecovery \/ dog.pc = "pre_recovery"

\* get_recovery_needed() names configured entities only
NeededAreManaged ==
    LET need == get_recovery_needed(tunnel_health, port_health, failure_threshold)
    IN  /\ need.tunnels \subseteq ManagedTunnels(config)
        /\ need.ports \subseteq ManagedPorts(config)

\* the recovery actions of the cycle are on configured entities only
ActionsOnManaged ==
    \A i \in 1..Len(log) :
       /\ log[i].action \in TunnelActions =>
             log[i].target \in ManagedTunnels(config)
       /\ log[i].action \in PortActions => log[i].target \in ManagedPorts(config)

\* the health maps hold failure streaks of configured entities only
RecordsAreManaged ==
    /\ {name \in DOMAIN tunnel_health : ~tunnel_health[name].healthy}
          \subseteq ManagedTunnels(config)
    /\ {port \in DOMAIN port_health : ~port_health[port].healthy}
          \subseteq ManagedPorts(config)

\* C23: in an iteration that read the configuration after a tunnel or a port
\* was taken out of it, the entity is not named by get_recovery_needed(), so
\* that no recovery cycle starts for it, no recovery action is performed on it,
\* and the health maps hold no failure streak of it
C23_RemovalsTakeEffect ==
    InRecovery => (NeededAreManaged /\ ActionsOnManaged /\ RecordsAreManaged)

\* C25: a delete or full_setup is called on a tunnel, and a remove_forward or
\* create_forward on a port, only while the entity's record is unhealthy with
\* failure_count >= failure_threshold
C25_ThresholdGatesRecovery ==
    \A c \in inflight :
       IF c[1] \in TunnelActions
       THEN /\ c[2] \in DOMAIN tunnel_health
            /\ should_attempt_recovery(tunnel_health[c[2]], failure_threshold)
       ELSE /\ c[2] \in DOMAIN port_health
            /\ should_attempt_recovery(port_health[c[2]], failure_threshold)

\* a port of a tunnel whose forward manager could not be obtained in this cycle
ManagerMissing(tunnels, l, port) ==
    \E i \in 1..Len(tunnels) :
       /\ tunnels[i].name \in NoForwardManager(l)
       /\ \E k \in 1..Len(tunnels[i].forwarded_ports) :
             tunnels[i].forwarded_ports[k] = port

\* every configured tunnel and port that is recovery-eligible had its recovery
\* started in this cycle; for a port that is its remove_forward, or the request
\* for its tunnel's forward manager if that gave none
EligibleAttempted ==
    /\ \A name \in DOMAIN tunnel_health \cap ManagedTunnels(config) :
          Eligible(tunnel_health[name]) => Attempted(log, "delete", name)
    /\ \A port \in DOMAIN port_health \cap ManagedPorts(config) :
          Eligible(port_health[port]) =>
             \/ Attempted(log, "remove_forward", port)
             \/ ManagerMissing(config, log, port)

\* no step of a recovery but a create_forward that succeeds for the port takes
\* an entity out of the recovery-eligible ones
StaysEligible ==
    /\ \A name \in DOMAIN tunnel_health :
          Eligible(tunnel_health[name]) =>
             /\ name \in DOMAIN tunnel_health'
             /\ ~tunnel_health'[name].healthy
             /\ tunnel_health'[name].failure_count >= failure_threshold
    /\ \A port \in DOMAIN port_health :
          (/\ Eligible(port_health[port])
           /\ ~(<<"create_forward", port>> \in inflight /\ dog'.result = "ok")) =>
             /\ port \in DOMAIN port_health'
             /\ ~port_health'[port].healthy
             /\ port_health'[port].failure_count >= failure_threshold

\* some record is recovery-eligible
SomeEligible(t_health, p_health) ==
    \/ \E name \in DOMAIN t_health :
          ~t_health[name].healthy /\ t_health[name].failure_count >= failure_threshold
    \/ \E port \in DOMAIN p_health :
          ~p_health[port].healthy /\ p_health[port].failure_count >= failure_threshold

FailureCount(health, port) ==
    IF port \in DOMAIN health THEN health[port].failure_count ELSE 0

\* C30: the health checks of one iteration raise the failure_count of a port
\* by at most 1, so that a port without a failure on record is below a
\* threshold of 2 after them, also when two tunnels forward the port
C30_OneProbePerCycle ==
    [][(dog.pc = "check" /\ dog'.pc # "check") =>
          \A port \in Ports :
             /\ FailureCount(port_health', port) <= FailureCount(port_health, port) + 1
             /\ (FailureCount(port_health, port) = 0 /\ failure_threshold >= 2) =>
                   port \notin get_recovery_needed(tunnel_health', port_health',
                                                   failure_threshold).ports]_vars

====
